---- MODULE Spec2Model ----
(***************************************************************************)
(* Model of clock.c: the stepper-motor clock driver for an ATtiny85.       *)
(*                                                                         *)
(* Two threads of control share memory:                                    *)
(*   - main(): the endless loop that samples the two pushbuttons through   *)
(*     PINB and stores clock_rate and clock_direction;                     *)
(*   - ISR(TIMER1_COMPA_vect): the timer interrupt, which divides the tick *)
(*     rate by clock_rate+1 and steps the 2-bit motor counter on PORTB.    *)
(* The interrupt can preempt main() between any two machine stores; it     *)
(* runs to completion (the AVR clears the I flag on entry), so it is one   *)
(* atomic action.  clock_rate and clock_direction are 16-bit objects on an *)
(* 8-bit core: every store to them is two byte stores, in an order the     *)
(* compiler picks, and the interrupt may fall between the two.             *)
(***************************************************************************)
EXTENDS Integers, Naturals, Sequences, FiniteSets, TLC

\* ------------------------------------------------------------------------
\* Program constants (clock.c lines 60-81)
\* ------------------------------------------------------------------------
PB_PUP_INIT == 20

PB_INIT == 0

BUTTON_FAST_FWD == 4

BUTTON_FAST_REV == 16

RATE_FAST == 0

RATE_NORMAL == 2

DIR_FWD == 1

DIR_REV == 2

\* 0b11111100 and 0b00000011, the masks of lines 160-161
PORT_KEEP_MASK == 252

COUNTER_MASK == 3

\* widths of uint8_t and of uint16_t / int on the AVR
Byte == 256

Word == 65536

\* ------------------------------------------------------------------------
\* Bitwise arithmetic of C on non-negative values
\* ------------------------------------------------------------------------
RECURSIVE BitAnd(_, _)
BitAnd(a, b) ==
    IF a = 0 \/ b = 0 THEN 0
    ELSE (a % 2) * (b % 2) + 2 * BitAnd(a \div 2, b \div 2)

RECURSIVE BitOr(_, _)
BitOr(a, b) ==
    IF a = 0 THEN b
    ELSE IF b = 0 THEN a
    ELSE (IF (a % 2) + (b % 2) > 0 THEN 1 ELSE 0) + 2 * BitOr(a \div 2, b \div 2)

\* the high-byte store takes the low byte of val (wrong register of the pair)
WriteByte_HiFromLo(old, val, which) ==
    IF which = "lo" THEN (old \div Byte) * Byte + (val % Byte)
    ELSE (val % Byte) * Byte + (old % Byte)

\* One byte store of a 16-bit store of val into the object holding old.
WriteByte(old, val, which) ==
    IF which = "lo" THEN (old \div Byte) * Byte + (val % Byte)
    ELSE (val \div Byte) * Byte + (old % Byte)

OtherByte(which) == IF which = "lo" THEN "hi" ELSE "lo"

\* ------------------------------------------------------------------------
\* State
\* ------------------------------------------------------------------------
VARIABLES
    timerTicks,        \* volatile uint16_t timerTicks       (line 94)
    clock_direction,   \* volatile int clock_direction       (line 95)
    clock_rate,        \* volatile uint16_t clock_rate       (line 96)
    two_bit_counter,   \* static uint8_t in the ISR          (line 151)
    PORTB,             \* output port register
    PINB,              \* input pins: bits 2 and 4 are the pushbuttons
    pc,                \* main(): the source line about to execute
    stb,               \* main(): byte already written of the 16-bit store at pc
    pinb1,             \* main(): value read from PINB at line 187
    pinb2,             \* main(): value read from PINB at line 192
    dirRead,           \* ISR: clock_direction as read at line 165 by the last step
    gap,               \* observer: interrupts since the last phase transition
    prevIter,          \* observer: samples and outcome of main()'s previous iteration
    runN,              \* observer: interrupts counted in the observed run
    runK,              \* observer: phase transitions counted in the run
    runStart           \* observer: what the run started from

vars == << timerTicks, clock_direction, clock_rate, two_bit_counter, PORTB,
           PINB, pc, stb, pinb1, pinb2, dirRead, gap, prevIter,
           runN, runK, runStart >>

\* The levels the two pushbutton pins can show; the other pins of PINB are
\* masked off by every use the program makes of the register.
PinLevels == { 0, BUTTON_FAST_FWD, BUTTON_FAST_REV,
               BUTTON_FAST_FWD + BUTTON_FAST_REV }

NoSample == -1

\* no phase step has read clock_direction yet
NoDir == 0

NoRun == << >>

\* ------------------------------------------------------------------------
\* ioinit() and the static initialisers: the state when main() enters its loop
\* ------------------------------------------------------------------------
Init ==
    /\ timerTicks = 0
    /\ clock_direction = DIR_FWD
    /\ clock_rate = RATE_NORMAL
    /\ two_bit_counter = 0
    /\ PORTB = BitOr(PB_INIT, PB_PUP_INIT)
    /\ PINB \in PinLevels
    /\ pc = "L187"
    /\ stb = "none"
    /\ pinb1 = NoSample
    /\ pinb2 = NoSample
    /\ dirRead = NoDir
    /\ gap = 0
    /\ prevIter = NoRun
    /\ runN = 0
    /\ runK = 0
    /\ runStart = NoRun

\* ------------------------------------------------------------------------
\* Environment: a pushbutton is pressed, released or bounces
\* ------------------------------------------------------------------------
ButtonChange ==
    /\ \E v \in PinLevels \ {PINB} : PINB' = v
    /\ UNCHANGED << timerTicks, clock_direction, clock_rate, two_bit_counter,
                    PORTB, pc, stb, pinb1, pinb2 >>
    /\ UNCHANGED << dirRead, gap, prevIter, runN, runK, runStart >>

\* ------------------------------------------------------------------------
\* main(): lines 185-202
\* ------------------------------------------------------------------------
\* the tests of lines 187 and 192 in swapped priority: reverse wins a tie
AfterFwdTest_RevFirst(v) ==
    IF BitAnd(v, BUTTON_FAST_REV) = 0 THEN "L194"
    ELSE IF BitAnd(v, BUTTON_FAST_FWD) = 0 THEN "L189" ELSE "L199"

\* line 187: if ( (PINB & BUTTON_FAST_FWD) == 0 )
AfterFwdTest(v) == IF BitAnd(v, BUTTON_FAST_FWD) = 0 THEN "L189" ELSE "L192"

\* line 192: else if ( (PINB & BUTTON_FAST_REV) == 0 )
AfterRevTest(v) == IF BitAnd(v, BUTTON_FAST_REV) = 0 THEN "L194" ELSE "L199"

\* the else branch leaves the rate fast
RateAt_Toggle(line) == IF clock_rate = RATE_FAST THEN RATE_NORMAL ELSE RATE_FAST

RateAt_StuckFast(line) == RATE_FAST

\* the value each clock_rate store writes (lines 189, 194, 199)
RateAt(line) == IF line = "L199" THEN RATE_NORMAL ELSE RATE_FAST

\* a reverse direction that, once stored, is never given up
DirAt_Latched(line) ==
    IF line = "L195" \/ clock_direction = DIR_REV THEN DIR_REV ELSE DIR_FWD

\* line 195 copied from line 190 without changing the direction
DirAt_AlwaysFwd(line) == DIR_FWD

\* the value each clock_direction store writes (lines 190, 195, 200)
DirAt(line) == IF line = "L195" THEN DIR_REV ELSE DIR_FWD

\* the statement after each store
AfterStore(line) ==
    CASE line = "L189" -> "L190"
      [] line = "L194" -> "L195"
      [] line = "L199" -> "L200"
      [] OTHER -> "L187"

\* line 187 on the program's variables
ReadFwdStep ==
    /\ pc = "L187"
    /\ pinb1' = PINB
    /\ pinb2' = NoSample
    /\ pc' = AfterFwdTest(PINB)
    /\ UNCHANGED << timerTicks, clock_direction, clock_rate, two_bit_counter,
                    PORTB, PINB, stb >>

ReadFwd ==
    /\ ReadFwdStep
    /\ UNCHANGED << dirRead, gap, prevIter, runN, runK, runStart >>

ReadRev ==
    /\ pc = "L192"
    /\ pinb2' = PINB
    /\ pc' = AfterRevTest(PINB)
    /\ UNCHANGED << timerTicks, clock_direction, clock_rate, two_bit_counter,
                    PORTB, PINB, stb, pinb1 >>
    /\ UNCHANGED << dirRead, gap, prevIter, runN, runK, runStart >>

\* one byte store of clock_rate = ...;
StoreRate ==
    /\ pc \in {"L189", "L194", "L199"}
    /\ IF stb = "none"
       THEN \E b \in {"lo", "hi"} :
               /\ clock_rate' = WriteByte(clock_rate, RateAt(pc), b)
               /\ stb' = b
               /\ pc' = pc
       ELSE /\ clock_rate' = WriteByte(clock_rate, RateAt(pc), OtherByte(stb))
            /\ stb' = "none"
            /\ pc' = AfterStore(pc)
    /\ UNCHANGED << timerTicks, clock_direction, two_bit_counter, PORTB, PINB,
                    pinb1, pinb2 >>
    /\ UNCHANGED << dirRead, gap, prevIter, runN, runK, runStart >>

\* one byte store of clock_direction = ...;
StoreDir ==
    /\ pc \in {"L190", "L195", "L200"}
    /\ IF stb = "none"
       THEN \E b \in {"lo", "hi"} :
               /\ clock_direction' = WriteByte(clock_direction, DirAt(pc), b)
               /\ stb' = b
               /\ pc' = pc
       ELSE /\ clock_direction' = WriteByte(clock_direction, DirAt(pc), OtherByte(stb))
            /\ stb' = "none"
            /\ pc' = AfterStore(pc)
    /\ UNCHANGED << timerTicks, clock_rate, two_bit_counter, PORTB, PINB,
                    pinb1, pinb2 >>
    /\ UNCHANGED << dirRead, gap, prevIter, runN, runK, runStart >>

\* ------------------------------------------------------------------------
\* ISR(TIMER1_COMPA_vect): lines 149-170
\* ------------------------------------------------------------------------
\* line 154: timerTicks++ on a uint16_t
TicksInc(t) == (t + 1) % Word

\* the compare of line 155 written >= : one tick early
Fires_AtThreshold(t, rate) == t >= rate

\* the compare of line 155 written == threshold + 1 instead of >
Fires_OnEqual(t, rate) == t = rate + 1

\* line 155: if ( timerTicks > clock_rate ), on the incremented count
Fires(t, rate) == t > rate

\* line 161 without its & 0b00000011: the whole counter is or-ed in
PortWrite_Unmasked(port, c) == BitOr(BitAnd(port, PORT_KEEP_MASK), c)

\* lines 160-162: the value stored to PORTB
PortWrite(port, c) ==
    BitOr(BitAnd(port, PORT_KEEP_MASK), BitAnd(c, COUNTER_MASK))

\* the branches of lines 165-168 exchanged
CounterStep_Swapped(c, dir) ==
    IF dir = DIR_FWD THEN (c + 1) % Byte ELSE (c - 1) % Byte

\* a counter that saturates at the ends of its range instead of wrapping
CounterStep_Saturating(c, dir) ==
    IF dir = DIR_FWD THEN (IF c = 0 THEN 0 ELSE c - 1)
    ELSE (IF c = Byte - 1 THEN c ELSE c + 1)

\* the counter declared uint16_t: it wraps at 16 bits instead of 8
CounterStep_Wide(c, dir) ==
    IF dir = DIR_FWD THEN (c - 1) % Word ELSE (c + 1) % Word

\* lines 165-168: two_bit_counter-- or ++ on a uint8_t
CounterStep(c, dir) ==
    IF dir = DIR_FWD THEN (c - 1) % Byte ELSE (c + 1) % Byte

\* lines 164-168 moved above lines 159-162: step first, then write
PhaseStep_AdvanceFirst(port, c, dir) ==
    LET stepped == CounterStep(c, dir)
    IN  [ PORTB |-> PortWrite(port, stepped), two_bit_counter |-> stepped ]

\* lines 159-168 in program order: the port is written from the counter as
\* it stands, and only then is the counter stepped.
PhaseStep(port, c, dir) ==
    LET temp_port == PortWrite(port, c)
    IN  [ PORTB |-> temp_port, two_bit_counter |-> CounterStep(c, dir) ]

\* the handler without line 157: the tick count is never put back to 0
Sequencer_NoReset ==
    LET t == TicksInc(timerTicks)
    IN  IF Fires(t, clock_rate)
        THEN LET r == PhaseStep(PORTB, two_bit_counter, clock_direction)
             IN  /\ timerTicks' = t
                 /\ PORTB' = r.PORTB
                 /\ two_bit_counter' = r.two_bit_counter
                 /\ dirRead' = clock_direction
                 /\ gap' = 0
        ELSE /\ timerTicks' = t
             /\ gap' = gap + 1
             /\ UNCHANGED << PORTB, two_bit_counter, dirRead >>

\* lines 159-162 moved out of the if: the port is rewritten on every tick
Sequencer_WritesEveryTick ==
    LET t == TicksInc(timerTicks)
    IN  IF Fires(t, clock_rate)
        THEN LET r == PhaseStep(PORTB, two_bit_counter, clock_direction)
             IN  /\ timerTicks' = 0
                 /\ PORTB' = r.PORTB
                 /\ two_bit_counter' = r.two_bit_counter
                 /\ dirRead' = clock_direction
                 /\ gap' = 0
        ELSE /\ timerTicks' = t
             /\ gap' = gap + 1
             /\ PORTB' = PortWrite(PORTB, two_bit_counter)
             /\ UNCHANGED << two_bit_counter, dirRead >>

\* The whole handler, on the program's variables.
Sequencer ==
    LET t == TicksInc(timerTicks)
    IN  IF Fires(t, clock_rate)
        THEN LET r == PhaseStep(PORTB, two_bit_counter, clock_direction)
             IN  /\ timerTicks' = 0
                 /\ PORTB' = r.PORTB
                 /\ two_bit_counter' = r.two_bit_counter
                 /\ dirRead' = clock_direction
                 /\ gap' = 0
        ELSE /\ timerTicks' = t
             /\ gap' = gap + 1
             /\ UNCHANGED << PORTB, two_bit_counter, dirRead >>

\* a handler that puts the rate back to normal itself after every interrupt
TIMER1_COMPA_vect_RestoresRate ==
    /\ Sequencer
    /\ clock_rate' = RATE_NORMAL
    /\ UNCHANGED << clock_direction, PINB, pc, stb, pinb1, pinb2 >>
    /\ UNCHANGED << prevIter, runN, runK, runStart >>

TIMER1_COMPA_vect ==
    /\ Sequencer
    /\ UNCHANGED << clock_direction, clock_rate, PINB, pc, stb, pinb1, pinb2 >>
    /\ UNCHANGED << prevIter, runN, runK, runStart >>

\* one step of main()
MainStep == ReadFwd \/ ReadRev \/ StoreRate \/ StoreDir

Next ==
    \/ ButtonChange
    \/ ReadFwd
    \/ ReadRev
    \/ StoreRate
    \/ StoreDir
    \/ TIMER1_COMPA_vect

Spec == Init /\ [][Next]_vars

\* ------------------------------------------------------------------------
\* Observed runs: N consecutive interrupts that all read the same clock_rate
\* and clock_direction, counted from a state the program can be in.
\* ------------------------------------------------------------------------
\* longest run observed
MaxN == 9

\* the run starts with two_bit_counter within MaxV0 of either end of uint8_t
MaxV0 == 3

StartCounters == (0 .. MaxV0) \cup ((Byte - 1 - MaxV0) .. (Byte - 1))

\* Where main() can stand with each (clock_rate, clock_direction) in memory:
\* at the top of the loop after a whole iteration (lines 187-201), or, for
\* RATE_NORMAL with DIR_REV, between the stores of lines 199 and 200 of the
\* iteration that follows a fast-reverse one.
MainSnapshots ==
    { [pc |-> "L187", pinb1 |-> a, pinb2 |-> b] :
          a \in PinLevels, b \in PinLevels \cup {NoSample} }
    \cup { [pc |-> "L200", pinb1 |-> a, pinb2 |-> b] :
          a \in PinLevels, b \in PinLevels }

SnapshotFits(m, rate, dir) ==
    IF m.pc = "L187"
    THEN IF AfterFwdTest(m.pinb1) = "L189"
         THEN m.pinb2 = NoSample /\ rate = RateAt("L189") /\ dir = DirAt("L190")
         ELSE /\ m.pinb2 # NoSample
              /\ rate = RateAt(AfterRevTest(m.pinb2))
              /\ dir = DirAt(AfterStore(AfterRevTest(m.pinb2)))
    ELSE /\ AfterFwdTest(m.pinb1) = "L192"
         /\ AfterRevTest(m.pinb2) = "L199"
         /\ rate = RateAt("L199")
         /\ dir = DirAt("L195")

InitRun ==
    /\ timerTicks \in 0 .. RATE_NORMAL
    /\ clock_rate \in {RATE_FAST, RATE_NORMAL}
    /\ clock_direction \in {DIR_FWD, DIR_REV}
    /\ two_bit_counter \in StartCounters
    /\ \/ /\ dirRead = NoDir
          /\ two_bit_counter = 0
          /\ PORTB = BitOr(PB_INIT, PB_PUP_INIT)
       \/ /\ dirRead \in {DIR_FWD, DIR_REV}
          /\ \E old \in 0 .. (Byte - 1) :
                /\ two_bit_counter = CounterStep(old, dirRead)
                /\ PORTB = PortWrite(BitOr(PB_INIT, PB_PUP_INIT), old)
    /\ PINB \in PinLevels
    /\ stb = "none"
    /\ \E m \in MainSnapshots :
          /\ SnapshotFits(m, clock_rate, clock_direction)
          /\ pc = m.pc
          /\ pinb1 = m.pinb1
          /\ pinb2 = m.pinb2
    /\ gap = timerTicks
    /\ prevIter = NoRun
    /\ runN = 0
    /\ runK = 0
    /\ runStart = [ t0 |-> timerTicks, v0 |-> two_bit_counter,
                    T |-> clock_rate, D |-> clock_direction ]

\* The handler, counted for as long as it reads what the run started with.
CountedInterrupt ==
    /\ runStart # NoRun
    /\ runN < MaxN
    /\ clock_rate = runStart.T
    /\ clock_direction = runStart.D
    /\ Sequencer
    /\ runN' = runN + 1
    /\ runK' = runK + (IF Fires(TicksInc(timerTicks), clock_rate) THEN 1 ELSE 0)
    /\ UNCHANGED << clock_direction, clock_rate, PINB, pc, stb, pinb1, pinb2,
                    prevIter, runStart >>

NextRun ==
    \/ ButtonChange
    \/ ReadFwd
    \/ ReadRev
    \/ StoreRate
    \/ StoreDir
    \/ CountedInterrupt

SpecRun == InitRun /\ [][NextRun]_vars

\* ------------------------------------------------------------------------
\* Observed iterations: the program from reset, with main() noting at the top
\* of its loop what the iteration just ended sampled and left in memory, and
\* with at most MaxIrq interrupts.
\* ------------------------------------------------------------------------
MaxIrq == 3

ReadFwdNoted ==
    /\ ReadFwdStep
    /\ prevIter' = IF pinb1 = NoSample THEN NoRun
                   ELSE [ pinb1 |-> pinb1, pinb2 |-> pinb2,
                          rate |-> clock_rate, dir |-> clock_direction ]
    /\ UNCHANGED << dirRead, gap, runN, runK, runStart >>

BoundedInterrupt ==
    /\ runN < MaxIrq
    /\ Sequencer
    /\ runN' = runN + 1
    /\ UNCHANGED << clock_direction, clock_rate, PINB, pc, stb, pinb1, pinb2,
                    prevIter, runK, runStart >>

\* one step of main(), noted
MainStepNoted == ReadFwdNoted \/ ReadRev \/ StoreRate \/ StoreDir

NextIter ==
    \/ ButtonChange
    \/ ReadFwdNoted
    \/ ReadRev
    \/ StoreRate
    \/ StoreDir
    \/ BoundedInterrupt

SpecIter == Init /\ [][NextIter]_vars

\* main() is an endless loop that never waits (lines 185-202) and the handler
\* returns after a few instructions: main() always gets to take its next step.
SpecLive == Init /\ [][NextIter]_vars /\ WF_vars(MainStepNoted)

\* ========================================================================
\* Properties
\* ========================================================================
\* main() stands at the top of the loop having completed an iteration whose
\* samples are still in pinb1 / pinb2.
IterationDone == pc = "L187" /\ stb = "none" /\ pinb1 # NoSample

\* what an iteration sampled on each input (0 = asserted, the button pressed):
\* fast-forward in the read of line 187; fast-reverse in the read of line 192
\* or, when line 192 was not reached, in the read of line 187.
FwdAsserted == BitAnd(pinb1, BUTTON_FAST_FWD) = 0

RevAsserted ==
    IF pinb2 # NoSample THEN BitAnd(pinb2, BUTTON_FAST_REV) = 0
    ELSE BitAnd(pinb1, BUTTON_FAST_REV) = 0

\* C1 (priority law): an iteration of main() that sampled both the
\* fast-forward and the fast-reverse input as asserted ends with
\* clock_rate = RATE_FAST and clock_direction = DIR_FWD.
C1_PriorityLaw ==
    (IterationDone /\ FwdAsserted /\ RevAsserted)
        => (clock_rate = RATE_FAST /\ clock_direction = DIR_FWD)

C1_Witness ==
    /\ IterationDone
    /\ pinb1 = 0
    /\ clock_rate = RATE_FAST
    /\ clock_direction = DIR_FWD
    /\ two_bit_counter = 2

\* C2 (default law): an iteration of main() that sampled both inputs as
\* deasserted ends with clock_rate = RATE_NORMAL and clock_direction = DIR_FWD.
C2_DefaultLaw ==
    (IterationDone /\ ~FwdAsserted /\ ~RevAsserted)
        => (clock_rate = RATE_NORMAL /\ clock_direction = DIR_FWD)

\* the default restored after fast-reverse stepping (the counter has gone up)
C2_Witness ==
    /\ IterationDone
    /\ ~FwdAsserted
    /\ pinb2 # NoSample
    /\ ~RevAsserted
    /\ clock_rate = RATE_NORMAL
    /\ clock_direction = DIR_FWD
    /\ two_bit_counter = 2

\* C3 (reverse rule): an iteration of main() that sampled fast-forward as
\* deasserted and fast-reverse as asserted ends with clock_rate = RATE_FAST
\* and clock_direction = DIR_REV.
C3_ReverseRule ==
    (IterationDone /\ ~FwdAsserted /\ RevAsserted)
        => (clock_rate = RATE_FAST /\ clock_direction = DIR_REV)

C3_Witness ==
    /\ IterationDone
    /\ ~FwdAsserted
    /\ pinb2 # NoSample
    /\ RevAsserted
    /\ clock_rate = RATE_FAST
    /\ clock_direction = DIR_REV

\* the low two bits of a byte: what reaches the stepper logic on PB0, PB1
Low2(x) == BitAnd(x, COUNTER_MASK)

\* an interrupt in which the compare of line 155 succeeds: a phase transition
PhaseTransition ==
    TIMER1_COMPA_vect /\ Fires(TicksInc(timerTicks), clock_rate)

\* the 2-bit value one step from v in direction dir
Stepped2(v, dir) == IF dir = DIR_FWD THEN (v - 1) % 4 ELSE (v + 1) % 4

\* C4 (step law): a phase transition takes a counter whose 2-bit value is v
\* to (v-1) mod 4 when the direction it reads is DIR_FWD and to (v+1) mod 4
\* when it is DIR_REV, wrapping at both ends.
C4_StepLaw ==
    [][ PhaseTransition =>
          /\ clock_direction \in {DIR_FWD, DIR_REV}
          /\ Low2(two_bit_counter') = Stepped2(Low2(two_bit_counter), clock_direction)
      ]_vars

\* forward from 0 wrapped to 3 (255), and reverse from there wrapped back to 0
C4_Witness ==
    /\ two_bit_counter = 0
    /\ Low2(PORTB) = 3
    /\ dirRead = DIR_REV
    /\ timerTicks = 0
    /\ clock_direction = DIR_FWD

\* C5 (divider law): over a run of runN consecutive interrupts that all read
\* the threshold T, the number of phase transitions is floor(runN / (T+1)),
\* give or take one for where in the count the run began.
C5_DividerLaw ==
    runStart # NoRun =>
        LET whole == runN \div (runStart.T + 1)
        IN  /\ runStart.T \in {RATE_FAST, RATE_NORMAL}
            /\ runK >= whole - 1
            /\ runK <= whole + 1

\* a run at RATE_NORMAL begun on the last tick of a count: 7 interrupts hold
\* 3 transitions, one more than floor(7/3)
C5_Witness ==
    /\ runStart # NoRun
    /\ runStart.T = RATE_NORMAL
    /\ runStart.t0 = RATE_NORMAL
    /\ runN = 7
    /\ runK = 3

\* C6 (end-to-end stepping): a run begun with timerTicks = 0 and counter v0,
\* all of whose interrupts read threshold T and one direction, leaves after
\* runN interrupts the 2-bit counter at (v0 - floor(runN/(T+1))) mod 4 under
\* DIR_FWD and at (v0 + floor(runN/(T+1))) mod 4 under DIR_REV; so T = 2,
\* forward, v0 = 0, 9 interrupts give 1, and T = 0, reverse, v0 = 3,
\* 4 interrupts give 3.
C6_EndToEnd ==
    (runStart # NoRun /\ runStart.t0 = 0) =>
        LET whole == runN \div (runStart.T + 1)
            v0 == Low2(runStart.v0)
            now == Low2(two_bit_counter)
        IN  /\ runStart.D = DIR_FWD => now = (v0 - whole) % 4
            /\ runStart.D = DIR_REV => now = (v0 + whole) % 4
            /\ (runStart.T = 2 /\ runStart.D = DIR_FWD /\ runStart.v0 = 0 /\ runN = 9)
                   => now = 1
            /\ (runStart.T = 0 /\ runStart.D = DIR_REV /\ runStart.v0 = 3 /\ runN = 4)
                   => now = 3

\* scenario 1 of the specification, at its end
C6_Witness ==
    /\ runStart = [ t0 |-> 0, v0 |-> 0, T |-> RATE_NORMAL, D |-> DIR_FWD ]
    /\ runN = 9
    /\ runK = 3
    /\ two_bit_counter = Byte - 3

\* C7 as claimed (advance, then write): when a phase transition returns, bits
\* 0-1 of the port equal the low 2 bits of the counter as it now stands.
C7_AdvanceThenWrite ==
    [][ PhaseTransition => Low2(PORTB') = Low2(two_bit_counter') ]_vars

\* C7 as amended (write, then advance): a phase transition writes the low 2
\* bits of the counter as it stood on entry and then steps the counter, so on
\* return the counter is one step, in the direction read, ahead of the port.
C7_WriteThenAdvance ==
    [][ PhaseTransition =>
          /\ Low2(PORTB') = Low2(two_bit_counter)
          /\ Low2(two_bit_counter') = Stepped2(Low2(PORTB'), clock_direction)
      ]_vars

\* after the first transition: the port shows 0, the counter is already at 255
C7_Witness ==
    /\ dirRead = DIR_FWD
    /\ Low2(PORTB) = 0
    /\ two_bit_counter = Byte - 1

\* the (rate, direction) pairs a whole evaluation of lines 187-201 produces
PolicyPairs ==
    { << RATE_FAST, DIR_FWD >>, << RATE_FAST, DIR_REV >>, << RATE_NORMAL, DIR_FWD >> }

\* C8 (no half-updated pair): the (clock_rate, clock_direction) pair an
\* interrupt reads (line 155, then line 165 when the compare succeeds) is
\* always one that a whole evaluation of main()'s policy produces, never the
\* rate of one evaluation with the direction of another.
C8_NoHalfUpdatedPair ==
    [][ PhaseTransition => << clock_rate, clock_direction >> \in PolicyPairs ]_vars

\* C9 as claimed (polarity follows the direction read): a phase transition
\* emits (previous emitted value - 1) mod 4 when the direction it reads is
\* DIR_FWD and (previous + 1) mod 4 when it is DIR_REV.
C9_PolarityFollowsDirection ==
    [][ PhaseTransition => Low2(PORTB') = Stepped2(Low2(PORTB), clock_direction) ]_vars

\* C9 as amended (polarity follows the direction of the transition before):
\* a phase transition emits the previous emitted value stepped in the
\* direction that the PREVIOUS phase transition read; the first transition
\* after reset emits the reset value 0 again.
C9_PolarityLagsOneStep ==
    [][ PhaseTransition =>
          Low2(PORTB') = IF dirRead = NoDir THEN Low2(PORTB)
                         ELSE Stepped2(Low2(PORTB), dirRead)
      ]_vars

\* the first transition after a change to reverse has stepped the output
\* from 0 down to 3 all the same
C9_Witness ==
    /\ dirRead = DIR_REV
    /\ clock_direction = DIR_REV
    /\ two_bit_counter = 0
    /\ Low2(PORTB) = 3
    /\ timerTicks = 0

\* C10 (read-modify-write): an interrupt never changes bits 2-7 of the port,
\* and a phase transition replaces bits 0-1 by the counter's low 2 bits.
C10_ReadModifyWrite ==
    [][ TIMER1_COMPA_vect =>
          /\ BitAnd(PORTB', PORT_KEEP_MASK) = BitAnd(PORTB, PORT_KEEP_MASK)
          /\ PhaseTransition => Low2(PORTB') = Low2(two_bit_counter)
      ]_vars

\* the pull-up bits are intact after the counter, at 255, was written
C10_Witness ==
    /\ PORTB = BitOr(PB_PUP_INIT, COUNTER_MASK)
    /\ two_bit_counter = Byte - 2
    /\ dirRead = DIR_FWD

\* C11 as claimed (counter range): the stored counter is in {0,1,2,3} in
\* every reachable state.
C11_CounterInTwoBits == two_bit_counter \in 0 .. 3

\* C11 as amended: the stored counter is a uint8_t that runs over 0..255
\* (255 after the first forward transition); it is its low 2 bits, the only
\* part written to the port, that are in {0,1,2,3}.
C11_CounterInByte ==
    /\ two_bit_counter \in 0 .. (Byte - 1)
    /\ Low2(two_bit_counter) \in 0 .. 3
    /\ Low2(PORTB) \in 0 .. 3

\* half way round the byte, far outside 0..3
C11_Witness ==
    /\ two_bit_counter = 128
    /\ Low2(PORTB) = 1
    /\ dirRead = DIR_FWD

\* C13 (single writer, single reader): the interrupt never changes
\* clock_rate or clock_direction; no step of main() changes timerTicks,
\* two_bit_counter or the port; and clock_rate and clock_direction change
\* only in main()'s stores to them.
C13_SingleWriter ==
    [][ /\ TIMER1_COMPA_vect => UNCHANGED << clock_rate, clock_direction >>
        /\ MainStep => UNCHANGED << timerTicks, two_bit_counter, PORTB >>
        /\ clock_rate' # clock_rate => StoreRate
        /\ clock_direction' # clock_direction => StoreDir
      ]_vars

\* main() has stored fast reverse and the interrupt has stepped three times
C13_Witness ==
    /\ IterationDone
    /\ clock_rate = RATE_FAST
    /\ clock_direction = DIR_REV
    /\ two_bit_counter = 3
    /\ timerTicks = 0

\* C14 (no garbage threshold): clock_rate, which the interrupt compares
\* timerTicks against, is exactly RATE_FAST or RATE_NORMAL in every state,
\* the states between the two byte stores of a 16-bit store included.
C14_NoGarbageThreshold ==
    /\ clock_rate \in {RATE_FAST, RATE_NORMAL}
    /\ stb # "none" => clock_rate \in {RATE_FAST, RATE_NORMAL}

\* an interrupt has just stepped the motor between the two byte stores of
\* line 199, whose low byte is already in memory
C14_Witness ==
    /\ pc = "L199"
    /\ stb = "lo"
    /\ clock_rate = RATE_NORMAL
    /\ clock_direction = DIR_REV
    /\ timerTicks = 0
    /\ dirRead = DIR_REV
    /\ two_bit_counter = 2

\* C15 (tick count after the compare): when an interrupt returns, timerTicks
\* is at most the clock_rate it compared against, also when main() has
\* switched from RATE_NORMAL to RATE_FAST in the middle of a count.
C15_TicksWithinThresholdAfterCompare ==
    [][ TIMER1_COMPA_vect => timerTicks' <= clock_rate ]_vars

\* the rate is fast, the count is back at 0, and main() is still between the
\* byte stores of line 189 that made the rate fast
C15_Witness ==
    /\ pc = "L189"
    /\ stb = "lo"
    /\ clock_rate = RATE_FAST
    /\ timerTicks = 0
    /\ gap = 0
    /\ dirRead = DIR_FWD
    /\ two_bit_counter = Byte - 1

\* C16 as claimed (tick range): in every state timerTicks lies in
\* [0, clock_rate], clock_rate being the threshold of the current rate mode.
C16_TicksWithinCurrentThreshold == timerTicks \in 0 .. clock_rate

\* C16 as amended: in every state timerTicks lies in [0, RATE_NORMAL], the
\* larger threshold; it exceeds the current clock_rate only after a store of
\* main() has lowered clock_rate below the count in progress, and the next
\* interrupt then puts it back to 0.
C16_TicksWithinLargestThreshold ==
    /\ [](timerTicks \in 0 .. RATE_NORMAL)
    /\ [][ (timerTicks <= clock_rate /\ timerTicks' > clock_rate') => StoreRate ]_vars
    /\ [][ (TIMER1_COMPA_vect /\ timerTicks > clock_rate) => timerTicks' = 0 ]_vars

\* a whole iteration of main() has made the rate fast with the count at 2
C16_Witness ==
    /\ IterationDone
    /\ clock_rate = RATE_FAST
    /\ timerTicks = RATE_NORMAL
    /\ gap = RATE_NORMAL

\* C18 (silent ticks): an interrupt whose incremented timerTicks is at most
\* clock_rate changes nothing but timerTicks, which goes up by 1: the
\* counter, the whole port and everything main() owns stay as they were.
C18_SilentTick ==
    [][ (TIMER1_COMPA_vect /\ ~Fires(TicksInc(timerTicks), clock_rate)) =>
          /\ timerTicks' = timerTicks + 1
          /\ UNCHANGED << two_bit_counter, PORTB, dirRead >>
          /\ UNCHANGED << clock_rate, clock_direction, PINB, pc, stb, pinb1, pinb2 >>
      ]_vars

\* two silent ticks after a reverse step that left port and counter apart
C18_Witness ==
    /\ timerTicks = 2
    /\ gap = 2
    /\ dirRead = DIR_REV
    /\ two_bit_counter = 1
    /\ PORTB = BitOr(PB_INIT, PB_PUP_INIT)

C20_BoundedStepGap ==
    /\ [](gap \in 0 .. RATE_NORMAL)
    /\ [][ PhaseTransition =>
             (gap + 1 >= 1 /\ gap + 1 <= RATE_NORMAL + 1 /\ gap' = 0) ]_vars
    /\ [][ (TIMER1_COMPA_vect /\ gap = RATE_NORMAL) => PhaseTransition ]_vars

\* two interrupts into a normal-rate count, with main() between the two
\* byte stores of line 194 that make the rate fast
C20_Witness ==
    /\ pc = "L194"
    /\ stb = "hi"
    /\ gap = RATE_NORMAL
    /\ clock_rate = RATE_NORMAL
    /\ dirRead = DIR_FWD
    /\ two_bit_counter = Byte - 2

\* ------------------------------------------------------------------------
\* C12  Arbiter idempotence: when two consecutive iterations of main() sample
\* the same button levels, the second iteration leaves clock_rate and
\* clock_direction with exactly the values the first one produced, whatever
\* interrupts ran in between.
\* ------------------------------------------------------------------------
\* the levels an iteration tested: bit 2 of its first sample, and bit 4 of
\* its second sample when line 192 was reached
TestedLevels(p1, p2) ==
    << BitAnd(p1, BUTTON_FAST_FWD),
       IF p2 = NoSample THEN NoSample ELSE BitAnd(p2, BUTTON_FAST_REV) >>

SameLevelsAsPrevious ==
    /\ prevIter # NoRun
    /\ TestedLevels(pinb1, pinb2) = TestedLevels(prevIter.pinb1, prevIter.pinb2)

C12_Idempotence ==
    (IterationDone /\ SameLevelsAsPrevious) =>
        /\ clock_rate = prevIter.rate
        /\ clock_direction = prevIter.dir

\* two iterations in a row found only fast-reverse held, with every allowed
\* interrupt taken meanwhile
C12_Witness ==
    /\ IterationDone
    /\ SameLevelsAsPrevious
    /\ RevAsserted /\ ~FwdAsserted
    /\ prevIter.rate = RATE_FAST /\ prevIter.dir = DIR_REV
    /\ clock_rate = RATE_FAST /\ clock_direction = DIR_REV
    /\ runN = MaxIrq
    /\ two_bit_counter = 2

\* ------------------------------------------------------------------------
\* C17  Self-correction: whatever the buttons did before (bounce, a press
\* caught half-way through an iteration), once the input levels stay put the
\* pair (clock_rate, clock_direction) reaches the pair the policy gives for
\* those levels and stays there.
\* ------------------------------------------------------------------------
\* the pair the policy gives for input levels p
PolicyFor(p) ==
    IF BitAnd(p, BUTTON_FAST_FWD) = 0 THEN << RATE_FAST, DIR_FWD >>
    ELSE IF BitAnd(p, BUTTON_FAST_REV) = 0 THEN << RATE_FAST, DIR_REV >>
    ELSE << RATE_NORMAL, DIR_FWD >>

C17_SelfCorrection ==
    \A p \in PinLevels :
        <>[](PINB = p) => <>[](<< clock_rate, clock_direction >> = PolicyFor(p))

\* the iteration before this one left fast-reverse behind; with both buttons
\* released this one has put normal-forward back
C17_Witness ==
    /\ IterationDone
    /\ prevIter # NoRun
    /\ prevIter.rate = RATE_FAST /\ prevIter.dir = DIR_REV
    /\ PINB = PB_PUP_INIT
    /\ pinb1 = PB_PUP_INIT /\ pinb2 = PB_PUP_INIT
    /\ << clock_rate, clock_direction >> = PolicyFor(PINB)
    /\ runN = MaxIrq

====
